---- MODULE Spec2Model ----
(***************************************************************************)
(* tcod.event: translation of native SDL event records into typed events,  *)
(* the get()/wait() event sources and the EventDispatch dispatcher, with   *)
(* the helpers _describe_bitmask and MouseMotion.from_sdl_event.           *)
(*                                                                         *)
(* Python strings whose letters matter (class names, type tags, handler    *)
(* names, bitmask labels) are sequences of one-character strings, so that  *)
(* upper(), lower(), "%" formatting and "|".join are computed.             *)
(***************************************************************************)
EXTENDS Integers, Sequences, FiniteSets, TLC

VARIABLES
    queue,       \* the native SDL event queue, oldest record first
    budget,      \* how many more records the environment may post
    mode,        \* which records the environment posts: "sample", "kinds", "live"
    pc,          \* where the calling thread is
    call,        \* the API call in progress or last finished
    timeout,     \* wait(): None, or the milliseconds left of the timeout
    heap,        \* the SDL_Event buffers allocated by get(), by address
    events,      \* the events yielded by the iterator of the current call
    polled,      \* the records SDL_PollEvent handed out during the current call
    dispatched,  \* the dispatch() calls of the current call, with the handlers run
    arrived,     \* the records queued at the start of the call, then those posted since
    startLen,    \* the length of the queue when the current call started
    mouseIn,     \* MouseMotion.from_sdl_event: the motion record and the tile size
    mouseOut,    \* MouseMotion.from_sdl_event: the event built
    bmIn,        \* _describe_bitmask: the arguments
    bmOut        \* _describe_bitmask: the value returned

vars ==
    <<queue, budget, mode, pc, call, timeout, heap, events, polled, dispatched,
      arrived, startLen, mouseIn, mouseOut, bmIn, bmOut>>

eventVars ==
    <<queue, budget, mode, pc, call, timeout, heap, events, polled, dispatched,
      arrived, startLen>>

\* Optional[T]: None is the empty sequence, a value v is <<v>>
None ==
    <<>>

Some(v) ==
    <<v>>

\* the null reference
NULL ==
    0

----------------------------------------------------------------------------
(* Bounds *)

\* records the environment posts in a run over the sample records
MaxEvents ==
    3

\* records the environment posts in a run over every kind of record
MaxKindEvents ==
    1

\* records the environment posts in a run under the fairness conditions
MaxLiveEvents ==
    2

\* largest wait() timeout, in milliseconds
MaxTimeout ==
    2

\* largest pixel coordinate of a mouse motion record
MaxPixel ==
    12

\* largest pixel delta of a mouse motion record, either way
MaxRel ==
    5

\* largest bitmask given to _describe_bitmask
MaxBits ==
    15

\* most entries of a table given to _describe_bitmask
MaxTable ==
    3

----------------------------------------------------------------------------
(* str.upper() and str.lower() *)

LowerLetters ==
    <<"a", "b", "c", "d", "e", "f", "g", "h", "i", "j", "k", "l", "m", "n", "o", "p", "q", "r", "s", "t", "u", "v", "w", "x", "y", "z">>

UpperLetters ==
    <<"A", "B", "C", "D", "E", "F", "G", "H", "I", "J", "K", "L", "M", "N", "O", "P", "Q", "R", "S", "T", "U", "V", "W", "X", "Y", "Z">>

LetterIndex(alphabet, c) ==
    CHOOSE i \in 1..Len(alphabet) : alphabet[i] = c

UpperChar(c) ==
    IF \E i \in 1..Len(LowerLetters) : LowerLetters[i] = c
    THEN UpperLetters[LetterIndex(LowerLetters, c)]
    ELSE c

LowerChar(c) ==
    IF \E i \in 1..Len(UpperLetters) : UpperLetters[i] = c
    THEN LowerLetters[LetterIndex(UpperLetters, c)]
    ELSE c

upper(s) ==
    [i \in 1..Len(s) |-> UpperChar(s[i])]

lower(s) ==
    [i \in 1..Len(s) |-> LowerChar(s[i])]

----------------------------------------------------------------------------
(* The event classes *)

\* cls.__name__ of each event class a native record can become
ClassName ==
       "Quit" :> <<"Q", "u", "i", "t">>
    @@ "KeyDown" :> <<"K", "e", "y", "D", "o", "w", "n">>
    @@ "KeyUp" :> <<"K", "e", "y", "U", "p">>
    @@ "MouseMotion" :> <<"M", "o", "u", "s", "e", "M", "o", "t", "i", "o", "n">>
    @@ "MouseButtonDown" :> <<"M", "o", "u", "s", "e", "B", "u", "t", "t", "o", "n", "D", "o", "w", "n">>
    @@ "MouseButtonUp" :> <<"M", "o", "u", "s", "e", "B", "u", "t", "t", "o", "n", "U", "p">>
    @@ "MouseWheel" :> <<"M", "o", "u", "s", "e", "W", "h", "e", "e", "l">>
    @@ "TextInput" :> <<"T", "e", "x", "t", "I", "n", "p", "u", "t">>
    @@ "WindowEvent" :> <<"W", "i", "n", "d", "o", "w", "E", "v", "e", "n", "t">>
    @@ "Undefined" :> <<"U", "n", "d", "e", "f", "i", "n", "e", "d">>

\* Event.__init__: the type tag defaults to the upper-cased class name
Event_init(cls, type) ==
    [cls |-> cls,
     type |-> IF type = None THEN upper(ClassName[cls]) ELSE type[1],
     sdl_event |-> NULL,
     x |-> 0]

\* WindowEvent.__WINDOW_TYPES: window sub-code -> type tag
__WINDOW_TYPES ==
       "SDL_WINDOWEVENT_SHOWN" :> <<"W", "i", "n", "d", "o", "w", "S", "h", "o", "w", "n">>
    @@ "SDL_WINDOWEVENT_HIDDEN" :> <<"W", "i", "n", "d", "o", "w", "H", "i", "d", "d", "e", "n">>
    @@ "SDL_WINDOWEVENT_EXPOSED" :> <<"W", "i", "n", "d", "o", "w", "E", "x", "p", "o", "s", "e", "d">>
    @@ "SDL_WINDOWEVENT_MOVED" :> <<"W", "i", "n", "d", "o", "w", "M", "o", "v", "e", "d">>
    @@ "SDL_WINDOWEVENT_RESIZED" :> <<"W", "i", "n", "d", "o", "w", "R", "e", "s", "i", "z", "e", "d">>
    @@ "SDL_WINDOWEVENT_SIZE_CHANGED" :> <<"W", "i", "n", "d", "o", "w", "S", "i", "z", "e", "C", "h", "a", "n", "g", "e", "d">>
    @@ "SDL_WINDOWEVENT_MINIMIZED" :> <<"W", "i", "n", "d", "o", "w", "M", "i", "n", "i", "m", "i", "z", "e", "d">>
    @@ "SDL_WINDOWEVENT_MAXIMIZED" :> <<"W", "i", "n", "d", "o", "w", "M", "a", "x", "i", "m", "i", "z", "e", "d">>
    @@ "SDL_WINDOWEVENT_RESTORED" :> <<"W", "i", "n", "d", "o", "w", "R", "e", "s", "t", "o", "r", "e", "d">>
    @@ "SDL_WINDOWEVENT_ENTER" :> <<"W", "i", "n", "d", "o", "w", "E", "n", "t", "e", "r">>
    @@ "SDL_WINDOWEVENT_LEAVE" :> <<"W", "i", "n", "d", "o", "w", "L", "e", "a", "v", "e">>
    @@ "SDL_WINDOWEVENT_FOCUS_GAINED" :> <<"W", "i", "n", "d", "o", "w", "F", "o", "c", "u", "s", "G", "a", "i", "n", "e", "d">>
    @@ "SDL_WINDOWEVENT_FOCUS_LOST" :> <<"W", "i", "n", "d", "o", "w", "F", "o", "c", "u", "s", "L", "o", "s", "t">>
    @@ "SDL_WINDOWEVENT_CLOSE" :> <<"W", "i", "n", "d", "o", "w", "C", "l", "o", "s", "e">>
    @@ "SDL_WINDOWEVENT_TAKE_FOCUS" :> <<"W", "i", "n", "d", "o", "w", "T", "a", "k", "e", "F", "o", "c", "u", "s">>
    @@ "SDL_WINDOWEVENT_HIT_TEST" :> <<"W", "i", "n", "d", "o", "w", "H", "i", "t", "T", "e", "s", "t">>

\* Undefined.from_sdl_event: an Undefined, type "", holding the buffer
Undefined_from_sdl_event(ref) ==
    [Event_init("Undefined", Some(<<>>)) EXCEPT !.sdl_event = ref]

\* WindowEvent.from_sdl_event: the sub-code picks the type tag; unknown
\* sub-codes give an Undefined
WindowEvent_from_sdl_event(rec, ref) ==
    IF rec.sub \notin DOMAIN __WINDOW_TYPES
    THEN Undefined_from_sdl_event(ref)
    ELSE [Event_init("WindowEvent", Some(__WINDOW_TYPES[rec.sub]))
             EXCEPT !.x = rec.data, !.sdl_event = ref]

\* the classes that define from_sdl_event (KeyDown and KeyUp through
\* KeyboardEvent, the mouse buttons through MouseButtonEvent); for any other
\* class Event.from_sdl_event raises NotImplementedError
Overrides_from_sdl_event ==
    {"Quit", "KeyDown", "KeyUp", "MouseMotion", "MouseButtonDown",
     "MouseButtonUp", "MouseWheel", "TextInput", "WindowEvent", "Undefined"}

\* cls.from_sdl_event(sdl_event): the classes other than WindowEvent and
\* Undefined call cls() with the default type tag and keep the buffer
from_sdl_event(cls, rec, ref) ==
    IF cls = "WindowEvent" THEN WindowEvent_from_sdl_event(rec, ref)
    ELSE IF cls = "Undefined" THEN Undefined_from_sdl_event(ref)
    ELSE [Event_init(cls, None) EXCEPT !.x = rec.data, !.sdl_event = ref]

\* a faulty table: the key-up code entered with the key-down class
_SDL_TO_CLASS_TABLE_KeyUpAsKeyDown ==
       "SDL_QUIT" :> "Quit"
    @@ "SDL_KEYDOWN" :> "KeyDown"
    @@ "SDL_KEYUP" :> "KeyDown"
    @@ "SDL_MOUSEMOTION" :> "MouseMotion"
    @@ "SDL_MOUSEBUTTONDOWN" :> "MouseButtonDown"
    @@ "SDL_MOUSEBUTTONUP" :> "MouseButtonUp"
    @@ "SDL_MOUSEWHEEL" :> "MouseWheel"
    @@ "SDL_TEXTINPUT" :> "TextInput"
    @@ "SDL_WINDOWEVENT" :> "WindowEvent"

\* _SDL_TO_CLASS_TABLE: native kind code -> event class
_SDL_TO_CLASS_TABLE ==
       "SDL_QUIT" :> "Quit"
    @@ "SDL_KEYDOWN" :> "KeyDown"
    @@ "SDL_KEYUP" :> "KeyUp"
    @@ "SDL_MOUSEMOTION" :> "MouseMotion"
    @@ "SDL_MOUSEBUTTONDOWN" :> "MouseButtonDown"
    @@ "SDL_MOUSEBUTTONUP" :> "MouseButtonUp"
    @@ "SDL_MOUSEWHEEL" :> "MouseWheel"
    @@ "SDL_TEXTINPUT" :> "TextInput"
    @@ "SDL_WINDOWEVENT" :> "WindowEvent"

\* the body of get()'s loop: the event yielded for the record in the buffer
Translate(rec, ref) ==
    IF rec.type \in DOMAIN _SDL_TO_CLASS_TABLE
    THEN from_sdl_event(_SDL_TO_CLASS_TABLE[rec.type], rec, ref)
    ELSE Undefined_from_sdl_event(ref)

\* whether the body of get()'s loop raises instead of yielding
TranslateRaises(rec) ==
    /\ rec.type \in DOMAIN _SDL_TO_CLASS_TABLE
    /\ _SDL_TO_CLASS_TABLE[rec.type] \notin Overrides_from_sdl_event

----------------------------------------------------------------------------
(* EventDispatch *)

\* the ev_* methods of the base EventDispatch
EventDispatchMethods ==
    { <<"e", "v", "_", "q", "u", "i", "t">>,
      <<"e", "v", "_", "k", "e", "y", "d", "o", "w", "n">>,
      <<"e", "v", "_", "k", "e", "y", "u", "p">>,
      <<"e", "v", "_", "m", "o", "u", "s", "e", "m", "o", "t", "i", "o", "n">>,
      <<"e", "v", "_", "m", "o", "u", "s", "e", "b", "u", "t", "t", "o", "n", "d", "o", "w", "n">>,
      <<"e", "v", "_", "m", "o", "u", "s", "e", "b", "u", "t", "t", "o", "n", "u", "p">>,
      <<"e", "v", "_", "m", "o", "u", "s", "e", "w", "h", "e", "e", "l">>,
      <<"e", "v", "_", "t", "e", "x", "t", "i", "n", "p", "u", "t">>,
      <<"e", "v", "_", "w", "i", "n", "d", "o", "w", "s", "h", "o", "w", "n">>,
      <<"e", "v", "_", "w", "i", "n", "d", "o", "w", "h", "i", "d", "d", "e", "n">>,
      <<"e", "v", "_", "w", "i", "n", "d", "o", "w", "e", "x", "p", "o", "s", "e", "d">>,
      <<"e", "v", "_", "w", "i", "n", "d", "o", "w", "m", "o", "v", "e", "d">>,
      <<"e", "v", "_", "w", "i", "n", "d", "o", "w", "r", "e", "s", "i", "z", "e", "d">>,
      <<"e", "v", "_", "w", "i", "n", "d", "o", "w", "s", "i", "z", "e", "c", "h", "a", "n", "g", "e", "d">>,
      <<"e", "v", "_", "w", "i", "n", "d", "o", "w", "m", "i", "n", "i", "m", "i", "z", "e", "d">>,
      <<"e", "v", "_", "w", "i", "n", "d", "o", "w", "m", "a", "x", "i", "m", "i", "z", "e", "d">>,
      <<"e", "v", "_", "w", "i", "n", "d", "o", "w", "r", "e", "s", "t", "o", "r", "e", "d">>,
      <<"e", "v", "_", "w", "i", "n", "d", "o", "w", "e", "n", "t", "e", "r">>,
      <<"e", "v", "_", "w", "i", "n", "d", "o", "w", "l", "e", "a", "v", "e">>,
      <<"e", "v", "_", "w", "i", "n", "d", "o", "w", "f", "o", "c", "u", "s", "g", "a", "i", "n", "e", "d">>,
      <<"e", "v", "_", "w", "i", "n", "d", "o", "w", "f", "o", "c", "u", "s", "l", "o", "s", "t">>,
      <<"e", "v", "_", "w", "i", "n", "d", "o", "w", "c", "l", "o", "s", "e">>,
      <<"e", "v", "_", "w", "i", "n", "d", "o", "w", "t", "a", "k", "e", "f", "o", "c", "u", "s">>,
      <<"e", "v", "_", "w", "i", "n", "d", "o", "w", "h", "i", "t", "t", "e", "s", "t">> }


\* a faulty handler name: the type tag used as it is
HandlerName_NoLower(type) ==
    <<"e", "v", "_">> \o type

\* "ev_%s" % (event.type.lower(),)
HandlerName(type) ==
    <<"e", "v", "_">> \o lower(type)

\* EventDispatch.dispatch(event): the event, the handlers run, the exception
\* raised by getattr when the method does not exist
dispatch(event) ==
    IF event.type # <<>>
    THEN IF HandlerName(event.type) \in EventDispatchMethods
         THEN [event |-> event, calls |-> <<HandlerName(event.type)>>,
               raised |-> "no"]
         ELSE [event |-> event, calls |-> <<>>, raised |-> "AttributeError"]
    ELSE [event |-> event, calls |-> <<>>, raised |-> "no"]

----------------------------------------------------------------------------
(* The native queue and its records *)

\* tcod.ffi.new("SDL_Event*"): a zeroed record
ZeroEvent ==
    [type |-> "SDL_FIRSTEVENT", sub |-> "SDL_WINDOWEVENT_NONE", data |-> 0]

\* kind codes without an entry in _SDL_TO_CLASS_TABLE
UnmappedKinds ==
    {"SDL_TEXTEDITING", "SDL_JOYAXISMOTION"}

\* window sub-codes, SDL_WINDOWEVENT_NONE having no entry in __WINDOW_TYPES
WindowSubCodes ==
    DOMAIN __WINDOW_TYPES \cup {"SDL_WINDOWEVENT_NONE"}

\* every kind of native record, with two payloads
KindRecords ==
    {[type |-> k, sub |-> "SDL_WINDOWEVENT_NONE", data |-> d] :
        k \in (DOMAIN _SDL_TO_CLASS_TABLE \cup UnmappedKinds) \ {"SDL_WINDOWEVENT"},
        d \in {0, 1}}
    \cup
    {[type |-> "SDL_WINDOWEVENT", sub |-> w, data |-> d] :
        w \in WindowSubCodes, d \in {0, 1}}

\* a sample of records: a key press, a window resize, a window record with an
\* unknown sub-code, a record of an unmapped kind
SampleRecords ==
    {[type |-> "SDL_KEYDOWN", sub |-> "SDL_WINDOWEVENT_NONE", data |-> 0],
     [type |-> "SDL_WINDOWEVENT", sub |-> "SDL_WINDOWEVENT_RESIZED", data |-> 1],
     [type |-> "SDL_WINDOWEVENT", sub |-> "SDL_WINDOWEVENT_NONE", data |-> 0],
     [type |-> "SDL_TEXTEDITING", sub |-> "SDL_WINDOWEVENT_NONE", data |-> 0]}

\* two records, one of a mapped kind and one of an unmapped kind
LiveRecords ==
    {[type |-> "SDL_KEYDOWN", sub |-> "SDL_WINDOWEVENT_NONE", data |-> 0],
     [type |-> "SDL_TEXTEDITING", sub |-> "SDL_WINDOWEVENT_NONE", data |-> 0]}

Records(m) ==
    CASE m = "kinds" -> KindRecords
      [] m = "live" -> LiveRecords
      [] OTHER -> SampleRecords

\* the environment posts a record
Enqueue(rec) ==
    /\ budget > 0
    /\ queue' = Append(queue, rec)
    /\ budget' = budget - 1
    /\ arrived' = Append(arrived, rec)
    /\ UNCHANGED <<mode, pc, call, timeout, heap, events, polled, dispatched,
                   startLen, mouseIn, mouseOut, bmIn, bmOut>>

\* SDL_PollEvent(sdl_event): whether a record is pending
SDL_PollEvent(q) ==
    Len(q) > 0

\* the state of a call that has just started
StartCall(name, where, t, h) ==
    /\ pc = "idle"
    /\ pc' = where
    /\ call' = name
    /\ timeout' = t
    /\ heap' = h
    /\ events' = <<>>
    /\ polled' = <<>>
    /\ dispatched' = <<>>
    /\ arrived' = queue
    /\ startLen' = Len(queue)
    /\ UNCHANGED <<queue, budget, mode, mouseIn, mouseOut, bmIn, bmOut>>

----------------------------------------------------------------------------
(* get() *)

\* the caller calls get() and starts iterating: the buffer is allocated
GetCall ==
    StartCall("get", "get", None, <<ZeroEvent>>)

\* one pass of get()'s while loop, for the caller who iterates (yield) or for
\* event_get (dispatch): SDL_PollEvent overwrites the one buffer of this
\* iterator with the oldest record, and the event built holds that buffer
PollStep(dispatching) ==
    IF SDL_PollEvent(queue)
    THEN LET rec == Head(queue)
             buf == 1
             e == Translate(rec, buf)
             d == dispatch(e)
         IN  /\ queue' = Tail(queue)
             /\ heap' = [heap EXCEPT ![buf] = rec]
             /\ polled' = Append(polled, rec)
             /\ IF TranslateRaises(rec)
                THEN /\ pc' = "NotImplementedError"
                     /\ UNCHANGED <<events, dispatched>>
                ELSE /\ events' = Append(events, e)
                     /\ dispatched' =
                            IF dispatching THEN Append(dispatched, d) ELSE dispatched
                     /\ pc' = IF dispatching /\ d.raised # "no" THEN d.raised ELSE pc
    ELSE /\ pc' = "idle"
         /\ UNCHANGED <<queue, heap, polled, events, dispatched>>

\* a faulty get(): "if" for "while", the iterator ends after its first event
GetNext_YieldsOnce ==
    /\ pc = "get"
    /\ IF Len(events) = 0
       THEN PollStep(FALSE)
       ELSE /\ pc' = "idle"
            /\ UNCHANGED <<queue, heap, polled, events, dispatched>>
    /\ UNCHANGED <<budget, mode, call, timeout, arrived, startLen,
                   mouseIn, mouseOut, bmIn, bmOut>>

\* the caller advances the iterator of get()
GetNext ==
    /\ pc = "get"
    /\ PollStep(FALSE)
    /\ UNCHANGED <<budget, mode, call, timeout, arrived, startLen,
                   mouseIn, mouseOut, bmIn, bmOut>>

----------------------------------------------------------------------------
(* EventDispatch.event_get() *)

EventGetCall ==
    StartCall("event_get", "event_get", None, <<ZeroEvent>>)

\* a faulty event_get(): events without a type tag are not passed to dispatch
EventGetStep_SkipsUntyped ==
    /\ pc = "event_get"
    /\ IF SDL_PollEvent(queue) /\ Translate(Head(queue), 1).type = <<>>
       THEN PollStep(FALSE)
       ELSE PollStep(TRUE)
    /\ UNCHANGED <<budget, mode, call, timeout, arrived, startLen,
                   mouseIn, mouseOut, bmIn, bmOut>>

\* one pass of "for event in get(): self.dispatch(event)"
EventGetStep ==
    /\ pc = "event_get"
    /\ PollStep(TRUE)
    /\ UNCHANGED <<budget, mode, call, timeout, arrived, startLen,
                   mouseIn, mouseOut, bmIn, bmOut>>

----------------------------------------------------------------------------
(* wait() and EventDispatch.event_wait() *)

Timeouts ==
    {None} \cup {Some(t) : t \in 0..MaxTimeout}

\* a faulty test: "if timeout:" for "if timeout is not None:"
UsesTimeout_Truthy(t) ==
    t # None /\ t[1] # 0

\* "if timeout is not None": SDL_WaitEventTimeout, else SDL_WaitEvent
UsesTimeout(t) ==
    t # None

\* when the native wait returns: SDL_WaitEventTimeout once a record is pending
\* or the timeout has run out, SDL_WaitEvent once a record is pending
WaitReady ==
    IF UsesTimeout(timeout)
    THEN Len(queue) > 0 \/ (timeout # None /\ timeout[1] = 0)
    ELSE Len(queue) > 0

\* a faulty wait: a buffer passed where NULL is, the oldest record is taken
AfterWait_TakesRecord(q) ==
    IF Len(q) > 0 THEN Tail(q) ELSE q

\* the queue after SDL_WaitEvent(NULL) / SDL_WaitEventTimeout(NULL, ms): with a
\* NULL event pointer the pending record stays in the queue
AfterWait(q) ==
    q

WaitCall(t) ==
    StartCall("wait", "wait", t, <<>>)

EventWaitCall(t) ==
    StartCall("event_wait", "event_wait", t, <<>>)

\* a millisecond passes while the thread is blocked in the native wait
WaitTick ==
    /\ pc \in {"wait", "event_wait"}
    /\ UsesTimeout(timeout)
    /\ timeout[1] > 0
    /\ timeout' = Some(timeout[1] - 1)
    /\ UNCHANGED <<queue, budget, mode, pc, call, heap, events, polled, dispatched,
                   arrived, startLen, mouseIn, mouseOut, bmIn, bmOut>>

\* the native wait returns; wait() returns get(), which the caller iterates,
\* while event_wait() drops that iterator unadvanced and calls event_get()
WaitReturn ==
    /\ pc \in {"wait", "event_wait"}
    /\ WaitReady
    /\ queue' = AfterWait(queue)
    /\ pc' = IF pc = "wait" THEN "get" ELSE "event_get"
    /\ heap' = <<ZeroEvent>>
    /\ startLen' = Len(queue')
    /\ UNCHANGED <<budget, mode, call, timeout, events, polled, dispatched,
                   arrived, mouseIn, mouseOut, bmIn, bmOut>>

----------------------------------------------------------------------------
(* MouseMotion.from_sdl_event *)

\* tile widths of the coordinate transform, in pixels
TileSizes ==
    {8, 16}

\* _pixel_to_tile(x, y): TCOD_sys_pixel_to_tile divides each pixel coordinate
\* by the tile size; a C double is kept as numerator and denominator
_pixel_to_tile(x, y, size) ==
    <<[num |-> x, den |-> size], [num |-> y, den |-> size]>>

\* a faulty conversion: rounding down, where int() rounds toward zero
int_Floor(f) ==
    f.num \div f.den

\* int(f) of a float: the fraction is dropped, rounding toward zero
int(f) ==
    IF f.num >= 0 THEN f.num \div f.den ELSE -((-f.num) \div f.den)

\* Point(x, y)
Point(x, y) ==
    [x |-> x, y |-> y]

\* MouseMotion.from_sdl_event(sdl_event), with MouseMotion.__init__
MouseMotion_from_sdl_event(motion, size) ==
    LET pixel == <<motion.x, motion.y>>
        pixel_motion == <<motion.xrel, motion.yrel>>
        subtile == _pixel_to_tile(pixel[1], pixel[2], size)
        tile == <<int(subtile[1]), int(subtile[2])>>
        prev_pixel == <<pixel[1] - pixel_motion[1], pixel[2] - pixel_motion[2]>>
        prev_subtile == _pixel_to_tile(prev_pixel[1], prev_pixel[2], size)
        prev_tile == <<int(prev_subtile[1]), int(prev_subtile[2])>>
        tile_motion == <<tile[1] - prev_tile[1], tile[2] - prev_tile[2]>>
    IN  [done |-> TRUE,
         type |-> upper(ClassName["MouseMotion"]),
         pixel |-> Point(pixel[1], pixel[2]),
         pixel_motion |-> Point(pixel_motion[1], pixel_motion[2]),
         tile |-> Point(tile[1], tile[2]),
         tile_motion |-> Point(tile_motion[1], tile_motion[2]),
         state |-> motion.state]

\* no event built yet
NoMouseEvent ==
    [done |-> FALSE, type |-> <<>>, pixel |-> Point(0, 0),
     pixel_motion |-> Point(0, 0), tile |-> Point(0, 0),
     tile_motion |-> Point(0, 0), state |-> 0]

\* motion records: positions, deltas, and two button states
MotionRecords ==
    [x : 0..MaxPixel, y : 0..MaxPixel, xrel : -MaxRel..MaxRel,
     yrel : -MaxRel..MaxRel, state : {0, 5}, size : TileSizes]

MouseMotionFromSdl ==
    /\ ~mouseOut.done
    /\ mouseOut' = MouseMotion_from_sdl_event(mouseIn, mouseIn.size)
    /\ UNCHANGED <<eventVars, mouseIn, bmIn, bmOut>>

----------------------------------------------------------------------------
(* _describe_bitmask *)

RECURSIVE BitAnd(_, _)
\* a & b of two non-negative integers
BitAnd(a, b) ==
    IF a = 0 \/ b = 0
    THEN 0
    ELSE (a % 2) * (b % 2) + 2 * BitAnd(a \div 2, b \div 2)

RECURSIVE Join(_, _)
\* sep.join(parts)
Join(sep, parts) ==
    IF Len(parts) = 0 THEN <<>>
    ELSE IF Len(parts) = 1 THEN parts[1]
    ELSE parts[1] \o sep \o Join(sep, Tail(parts))

RECURSIVE Matching(_, _)
\* the loop of _describe_bitmask: the names of the entries, in the order the
\* table iterates, whose key has a bit in common with bits
Matching(bits, table) ==
    IF Len(table) = 0 THEN <<>>
    ELSE IF BitAnd(table[1].bit, bits) # 0
    THEN <<table[1].name>> \o Matching(bits, Tail(table))
    ELSE Matching(bits, Tail(table))

\* a faulty version: the first matching name is returned alone
_describe_bitmask_FirstOnly(bits, table, default) ==
    IF Matching(bits, table) = <<>> THEN default ELSE Matching(bits, table)[1]

\* _describe_bitmask(bits, table, default)
_describe_bitmask(bits, table, default) ==
    LET result == Matching(bits, table)
    IN  IF result = <<>> THEN default ELSE Join(<<"|">>, result)

\* the entries tables are made of: those of
\* _REVERSE_BUTTON_MASK_TABLE less its last, the names without their
\* "tcod.event.BUTTON_" prefix, and an entry for the mask 0
MaskEntries ==
    {[bit |-> 1, name |-> <<"L", "M", "A", "S", "K">>],
     [bit |-> 2, name |-> <<"M", "M", "A", "S", "K">>],
     [bit |-> 4, name |-> <<"R", "M", "A", "S", "K">>],
     [bit |-> 8, name |-> <<"X", "1", "M", "A", "S", "K">>],
     [bit |-> 0, name |-> <<"N", "O", "N", "E">>]}

\* a dict: its entries in iteration order, no key twice
Tables ==
    {t \in UNION {[1..n -> MaskEntries] : n \in 0..MaxTable} :
        \A i, j \in 1..Len(t) : i # j => t[i].bit # t[j].bit}

Defaults ==
    {<<"0">>, <<"n", "o", "n", "e">>}

DescribeBitmask ==
    /\ ~bmOut.done
    /\ bmOut' = [done |-> TRUE,
                 value |-> _describe_bitmask(bmIn.bits, bmIn.table, bmIn.default)]
    /\ UNCHANGED <<eventVars, mouseIn, mouseOut, bmIn>>

----------------------------------------------------------------------------
(* Specifications *)

IdleMouse ==
    /\ mouseIn = [x |-> 0, y |-> 0, xrel |-> 0, yrel |-> 0, state |-> 0, size |-> 8]
    /\ mouseOut = MouseMotion_from_sdl_event(mouseIn, mouseIn.size)

IdleBitmask ==
    /\ bmIn = [bits |-> 0, table |-> <<>>, default |-> <<"0">>]
    /\ bmOut = [done |-> TRUE, value |-> <<"0">>]

IdleEvents(m, n) ==
    /\ queue = <<>>
    /\ budget = n
    /\ mode = m
    /\ pc = "idle"
    /\ call = "none"
    /\ timeout = None
    /\ heap = <<>>
    /\ events = <<>>
    /\ polled = <<>>
    /\ dispatched = <<>>
    /\ arrived = <<>>
    /\ startLen = 0

\* the event system over the sample records
Init ==
    /\ IdleEvents("sample", MaxEvents)
    /\ IdleMouse
    /\ IdleBitmask

\* the event system over every kind of record
InitKinds ==
    /\ IdleEvents("kinds", MaxKindEvents)
    /\ IdleMouse
    /\ IdleBitmask

\* the event system over two records, for the runs under fairness
InitLive ==
    /\ IdleEvents("live", MaxLiveEvents)
    /\ IdleMouse
    /\ IdleBitmask

InitMouse ==
    /\ IdleEvents("sample", 0)
    /\ mouseIn \in MotionRecords
    /\ mouseOut = NoMouseEvent
    /\ IdleBitmask

InitBitmask ==
    /\ IdleEvents("sample", 0)
    /\ IdleMouse
    /\ bmIn \in [bits : 0..MaxBits, table : Tables, default : Defaults]
    /\ bmOut = [done |-> FALSE, value |-> <<>>]

Next ==
    \/ \E rec \in Records(mode) : Enqueue(rec)
    \/ GetCall
    \/ GetNext
    \/ EventGetCall
    \/ EventGetStep
    \/ \E t \in Timeouts : WaitCall(t)
    \/ \E t \in Timeouts : EventWaitCall(t)
    \/ WaitTick
    \/ WaitReturn

NextMouse ==
    MouseMotionFromSdl

NextBitmask ==
    DescribeBitmask

Spec ==
    Init /\ [][Next]_vars

SpecKinds ==
    InitKinds /\ [][Next]_vars

SpecMouse ==
    InitMouse /\ [][NextMouse]_vars

SpecBitmask ==
    InitBitmask /\ [][NextBitmask]_vars

\* the caller keeps iterating, the native wait returns when it can, time passes
LiveSpec ==
    /\ InitLive
    /\ [][Next]_vars
    /\ WF_vars(GetNext)
    /\ WF_vars(EventGetStep)
    /\ WF_vars(WaitReturn)
    /\ WF_vars(WaitTick)

----------------------------------------------------------------------------
(* Claims about translation and dispatch *)

\* the class the table of the module docstring's kinds gives each kind code
ExpectedClass(kind) ==
    CASE kind = "SDL_QUIT" -> "Quit"
      [] kind = "SDL_KEYDOWN" -> "KeyDown"
      [] kind = "SDL_KEYUP" -> "KeyUp"
      [] kind = "SDL_MOUSEMOTION" -> "MouseMotion"
      [] kind = "SDL_MOUSEBUTTONDOWN" -> "MouseButtonDown"
      [] kind = "SDL_MOUSEBUTTONUP" -> "MouseButtonUp"
      [] kind = "SDL_MOUSEWHEEL" -> "MouseWheel"
      [] kind = "SDL_TEXTINPUT" -> "TextInput"
      [] kind = "SDL_WINDOWEVENT" -> "WindowEvent"
      [] OTHER -> "Undefined"

\* the 16 window sub-codes that have a sub-kind
KnownWindowSubCodes ==
    {"SDL_WINDOWEVENT_SHOWN", "SDL_WINDOWEVENT_HIDDEN", "SDL_WINDOWEVENT_EXPOSED",
     "SDL_WINDOWEVENT_MOVED", "SDL_WINDOWEVENT_RESIZED",
     "SDL_WINDOWEVENT_SIZE_CHANGED", "SDL_WINDOWEVENT_MINIMIZED",
     "SDL_WINDOWEVENT_MAXIMIZED", "SDL_WINDOWEVENT_RESTORED",
     "SDL_WINDOWEVENT_ENTER", "SDL_WINDOWEVENT_LEAVE",
     "SDL_WINDOWEVENT_FOCUS_GAINED", "SDL_WINDOWEVENT_FOCUS_LOST",
     "SDL_WINDOWEVENT_CLOSE", "SDL_WINDOWEVENT_TAKE_FOCUS",
     "SDL_WINDOWEVENT_HIT_TEST"}

FallsBack(rec) ==
    \/ ExpectedClass(rec.type) = "Undefined"
    \/ rec.type = "SDL_WINDOWEVENT" /\ rec.sub \notin KnownWindowSubCodes

\* C1: every record polled yields an event, never an exception: of the class
\* mapped to its kind code when the code is one of the 9 mapped and, for a
\* window record, the sub-code is one of the 16 known; otherwise an Undefined
\* whose type is "".
C1_TranslationTotal ==
    /\ pc # "NotImplementedError"
    /\ Len(events) = Len(polled)
    /\ Cardinality(DOMAIN _SDL_TO_CLASS_TABLE) = 9
    /\ Cardinality(DOMAIN __WINDOW_TYPES) = 16
    /\ \A i \in 1..Len(events) :
          IF FallsBack(polled[i])
          THEN events[i].cls = "Undefined" /\ events[i].type = <<>>
          ELSE events[i].cls = ExpectedClass(polled[i].type)

\* C1 witness: a window record with an unknown sub-code was yielded as an
\* Undefined
C1_Witness ==
    \E i \in 1..Len(events) :
        /\ polled[i].type = "SDL_WINDOWEVENT"
        /\ polled[i].sub = "SDL_WINDOWEVENT_NONE"
        /\ events[i].cls = "Undefined"

\* C2: during and after event_get() the i-th dispatch call received the
\* translation of the i-th record polled, and the records polled followed by
\* those still queued are the records in the order they arrived: nothing
\* reordered, skipped or dispatched twice.
C2_DispatchFifo ==
    call = "event_get" =>
        /\ polled \o queue = arrived
        /\ Len(dispatched) = Len(polled)
        /\ \A i \in 1..Len(dispatched) :
              dispatched[i].event = Translate(polled[i], 1)
        /\ (pc = "idle" => Len(dispatched) >= startLen)

\* C2 witness: event_get() returned after dispatching three events, an
\* Undefined among them, not all alike
C2_Witness ==
    /\ call = "event_get"
    /\ pc = "idle"
    /\ Len(dispatched) = 3
    /\ startLen = 3
    /\ dispatched[1].event.cls # dispatched[2].event.cls
    /\ \E i \in 1..3 : dispatched[i].event.cls = "Undefined"

\* h is t with every upper-case letter replaced by its lower-case letter
IsLowerCaseOf(h, t) ==
    /\ Len(h) = Len(t)
    /\ \A i \in 1..Len(t) :
          IF \E k \in 1..26 : UpperLetters[k] = t[i]
          THEN \E k \in 1..26 : UpperLetters[k] = t[i] /\ LowerLetters[k] = h[i]
          ELSE h[i] = t[i]

\* C3: each dispatch of an event with a non-empty type tag ran exactly one
\* handler, the method of the base EventDispatch named "ev_" followed by the
\* lower-cased tag (KeyDown -> ev_keydown, WindowResized -> ev_windowresized);
\* each dispatch of an event with an empty tag ran none; no dispatch raised.
C3_DispatchOneHandler ==
    /\ pc # "AttributeError"
    /\ Cardinality(EventDispatchMethods) = 24
    /\ \A i \in 1..Len(dispatched) :
          LET d == dispatched[i]
          IN  /\ d.raised = "no"
              /\ IF d.event.type = <<>>
                 THEN d.calls = <<>>
                 ELSE /\ Len(d.calls) = 1
                      /\ d.calls[1] \in EventDispatchMethods
                      /\ SubSeq(d.calls[1], 1, 3) = <<"e", "v", "_">>
                      /\ IsLowerCaseOf(SubSeq(d.calls[1], 4, Len(d.calls[1])),
                                       d.event.type)
              /\ (d.event.cls = "KeyDown" =>
                    d.calls = << <<"e", "v", "_", "k", "e", "y", "d", "o", "w", "n">> >>)
              /\ (polled[i].type = "SDL_WINDOWEVENT"
                     /\ polled[i].sub = "SDL_WINDOWEVENT_RESIZED" =>
                    d.calls = << <<"e", "v", "_", "w", "i", "n", "d", "o", "w",
                                   "r", "e", "s", "i", "z", "e", "d">> >>)

\* C3 witness: a window-resized event was dispatched to one handler
C3_Witness ==
    \E i \in 1..Len(dispatched) :
        /\ dispatched[i].event.cls = "WindowEvent"
        /\ polled[i].sub = "SDL_WINDOWEVENT_RESIZED"
        /\ Len(dispatched[i].calls) = 1

\* C4: at every moment each event yielded by the current iterator has an
\* sdl_event holding the record the event was built from.
C4_KeepsOwnRecord ==
    \A i \in 1..Len(events) : heap[events[i].sdl_event] = polled[i]

\* C5: the type of every event is the name of its class in upper case.
C5_TypeIsUpperClassName ==
    \A i \in 1..Len(events) : events[i].type = upper(ClassName[events[i].cls])

----------------------------------------------------------------------------
(* Claims about the event sources *)

Waiting ==
    pc \in {"wait", "event_wait"}

\* C6: iterating get() ends; when it has ended and no record was posted since
\* the call, it has yielded one event per record queued at the call (none for
\* an empty queue) and the queue is empty.
C6_PollDrains ==
    /\ [](call = "get" /\ pc = "idle" /\ Len(arrived) = startLen =>
             /\ Len(events) = startLen
             /\ polled = arrived
             /\ queue = <<>>)
    /\ (call = "get" /\ pc = "get" ~> pc = "idle")

\* C6 witness: get() ended after yielding the two records that were queued
C6_Witness ==
    /\ call = "get"
    /\ pc = "idle"
    /\ startLen = 2
    /\ Len(arrived) = 2
    /\ Len(events) = 2

\* C7: a wait with a timeout returns (once a record is pending or the timeout
\* has run out); a wait of any kind returns once a record is pending; a wait
\* without timeout returns only at a moment when a record is pending; and the
\* iterator of a wait() during which the queue stayed empty yields nothing.
C7_WaitReturns ==
    /\ (Waiting /\ timeout # None ~> ~Waiting)
    /\ (Waiting /\ Len(queue) > 0 ~> ~Waiting)
    /\ [][Waiting /\ timeout = None /\ ~Waiting' => Len(queue) > 0]_vars
    /\ [](call = "wait" /\ ~Waiting /\ arrived = <<>> => events = <<>>)

\* C7 witness: wait(0) has returned on a queue that was and stayed empty
C7_Witness ==
    /\ call = "wait"
    /\ pc = "get"
    /\ timeout = Some(0)
    /\ arrived = <<>>
    /\ queue = <<>>

\* C10: during and after event_wait(timeout) the records polled followed by
\* those still queued are the records that were queued at the call or posted
\* since, in that order (the wait takes none), each record polled was
\* dispatched once, in that order, and when event_wait returns every record
\* that was queued when its wait returned has been dispatched.
C10_EventWaitLosesNothing ==
    call = "event_wait" =>
        /\ polled \o queue = arrived
        /\ Len(dispatched) = Len(polled)
        /\ \A i \in 1..Len(dispatched) :
              /\ dispatched[i].event = events[i]
              /\ events[i] = Translate(polled[i], 1)
        /\ (Waiting => polled = <<>>)
        /\ (pc = "idle" => Len(dispatched) >= startLen /\ Len(polled) <= Len(arrived))

\* C10 witness: event_wait() returned after dispatching the two records that
\* were queued when its wait returned
C10_Witness ==
    /\ call = "event_wait"
    /\ pc = "idle"
    /\ startLen = 2
    /\ Len(dispatched) = 2
    /\ dispatched[1].event.cls # dispatched[2].event.cls

----------------------------------------------------------------------------
(* Claims about the pure helpers *)

\* the bit of a table entry is set in bits
BitIsSet(bit, bits) ==
    bit > 0 /\ (bits \div bit) % 2 = 1

RECURSIVE Piped(_)
\* the names with a "|" between neighbours
Piped(names) ==
    IF Len(names) = 1
    THEN names[1]
    ELSE Piped(SubSeq(names, 1, Len(names) - 1)) \o <<"|">> \o names[Len(names)]

SetNames(bits, table) ==
    LET set == SelectSeq(table, LAMBDA e : BitIsSet(e.bit, bits))
    IN  [i \in 1..Len(set) |-> set[i].name]

\* C8: _describe_bitmask returns the default for bits = 0 and whenever no
\* entry of the table has its bit set in bits; the label of the bit alone when
\* bits is a single bit that is a key of the table; and otherwise the labels
\* of the entries whose bit is set, in table order, with "|" between them.
C8_DescribeBitmask ==
    bmOut.done =>
        LET bits == bmIn.bits
            table == bmIn.table
            names == SetNames(bits, table)
        IN  /\ (bits = 0 => bmOut.value = bmIn.default)
            /\ (names = <<>> => bmOut.value = bmIn.default)
            /\ \A i \in 1..Len(table) :
                  table[i].bit = bits /\ bits > 0 => bmOut.value = table[i].name
            /\ (names # <<>> => bmOut.value = Piped(names))

\* C8 witness: bits 5 against a table holding the masks 4, 2 and 1 in that
\* order gave "RMASK|LMASK"
C8_Witness ==
    /\ bmOut.done
    /\ bmIn.bits = 5
    /\ Len(bmIn.table) = 3
    /\ bmIn.table[1].bit = 4
    /\ bmIn.table[2].bit = 2
    /\ bmIn.table[3].bit = 1
    /\ bmOut.value = <<"R", "M", "A", "S", "K", "|", "L", "M", "A", "S", "K">>

\* t is the quotient x / size with its fraction dropped
IsTruncation(t, x, size) ==
    IF x >= 0
    THEN size * t <= x /\ x < size * (t + 1)
    ELSE size * t >= x /\ x > size * (t - 1)

\* C9: the MouseMotion built has pixel, pixel_motion and state as in the
\* record, tile the truncated tile coordinates of the pixel position, and
\* tile_motion the tile less the truncated tile coordinates of the position
\* before the motion; with 8-pixel tiles, position (10,10) and delta (5,5)
\* give tile (1,1) and tile_motion (1,1).
C9_MouseMotionTiles ==
    mouseOut.done =>
        LET m == mouseIn
            e == mouseOut
        IN  /\ e.pixel = [x |-> m.x, y |-> m.y]
            /\ e.pixel_motion = [x |-> m.xrel, y |-> m.yrel]
            /\ e.state = m.state
            /\ IsTruncation(e.tile.x, m.x, m.size)
            /\ IsTruncation(e.tile.y, m.y, m.size)
            /\ IsTruncation(e.tile.x - e.tile_motion.x, m.x - m.xrel, m.size)
            /\ IsTruncation(e.tile.y - e.tile_motion.y, m.y - m.yrel, m.size)
            /\ (m.size = 8 /\ m.x = 10 /\ m.y = 10 /\ m.xrel = 5 /\ m.yrel = 5 =>
                  e.tile = [x |-> 1, y |-> 1] /\ e.tile_motion = [x |-> 1, y |-> 1])

\* C9 witness: the event for position (10,10), delta (5,5), 8-pixel tiles
C9_Witness ==
    /\ mouseOut.done
    /\ mouseIn.size = 8
    /\ mouseIn.x = 10 /\ mouseIn.y = 10
    /\ mouseIn.xrel = 5 /\ mouseIn.yrel = 5
    /\ mouseOut.tile_motion = [x |-> 1, y |-> 1]

====
